---- MODULE Spec2Model ----
(***************************************************************************)
(* A model of the float-line outliner: the outline buffer (pkg/outliner/   *)
(* outliner.go), the FLOAT dispatch engine (reducers, selectors, imprints) *)
(* and the capture pass that connects them.                                *)
(*                                                                         *)
(* Text is a sequence of bytes, each byte a one-character string; the      *)
(* three bytes of the bullet U+2022 are written "E2","80","A2" and those   *)
(* of U+25E6 "E2","97","A6".  The cursor and every index are 0-based as in *)
(* the Go source; sequences are 1-based, so line i of the source is        *)
(* lines[i + 1] here.                                                      *)
(***************************************************************************)
EXTENDS Integers, Sequences, FiniteSets, TLC

VARIABLES
    lines,          \* Outliner.lines: sequence of OutlineNode records
    cursor,         \* Outliner.cursor: index of the line being edited
    cursorPos,      \* Outliner.cursorPos: position within the current line
    focused,        \* Outliner.focused
    linkRegistry,   \* Outliner.linkRegistry: concept -> sequence of node IDs
    actions,        \* FloatDispatchSystem.actions: the action log
    reducers,       \* FloatDispatchSystem.reducers: name -> reducer record
    selectors,      \* FloatDispatchSystem.selectors: name -> selector record
    reducerUpdates, \* Outliner.reducerUpdates: the buffered channel
    evnaWarnings,   \* the EVNA_DISPATCH_WARNING entries of the debug panel
    listeners,      \* the listenForReducerUpdates commands the host is running
    op              \* the handler (and branch of it) that ran last

vars == <<lines, cursor, cursorPos, focused, linkRegistry, actions, reducers,
          selectors, reducerUpdates, evnaWarnings, listeners, op>>

(***************************************************************************)
(* Bounds of the model.                                                    *)
(***************************************************************************)
MaxLines == 2
MaxOutline == 3
MaxChars == 2
MaxActions == 4
MaxBurst == 102

(***************************************************************************)
(* Program constants.                                                      *)
(***************************************************************************)
MaxListeners == 2
MaxHeldIDs == 3
MaxIndent == 6
ChannelCap == 100

(***************************************************************************)
(* Go's strings package, on byte sequences.                                *)
(***************************************************************************)
IsSpace(c) == c \in {" ", "\t", "\n", "\r"}

HasPrefix(s, p) == Len(p) <= Len(s) /\ SubSeq(s, 1, Len(p)) = p

Drop(s, n) == SubSeq(s, n + 1, Len(s))

TrimPrefix(s, p) == IF HasPrefix(s, p) THEN Drop(s, Len(p)) ELSE s

\* strings.Index, 1-based: the start of the first occurrence, 0 when absent.
Index(s, sub) ==
    LET hits == {i \in 1..(Len(s) - Len(sub) + 1) :
                    s[i] = sub[1] /\ SubSeq(s, i, i + Len(sub) - 1) = sub}
    IN  IF sub = <<>> THEN 1
        ELSE IF hits = {} THEN 0
        ELSE CHOOSE i \in hits : \A j \in hits : i <= j

Contains(s, sub) == Index(s, sub) # 0

RECURSIVE Split(_, _)
Split(s, sep) ==
    LET i == Index(s, sep)
    IN  IF i = 0 THEN <<s>>
        ELSE <<SubSeq(s, 1, i - 1)>> \o Split(Drop(s, i + Len(sep) - 1), sep)

\* strings.SplitN(s, sep, 2)
SplitN2(s, sep) ==
    LET i == Index(s, sep)
    IN  IF i = 0 THEN <<s>>
        ELSE <<SubSeq(s, 1, i - 1), Drop(s, i + Len(sep) - 1)>>

RECURSIVE TrimLeft(_)
TrimLeft(s) == IF s # <<>> /\ IsSpace(Head(s)) THEN TrimLeft(Tail(s)) ELSE s

RECURSIVE TrimRight(_)
TrimRight(s) ==
    IF s # <<>> /\ IsSpace(s[Len(s)]) THEN TrimRight(SubSeq(s, 1, Len(s) - 1))
    ELSE s

TrimSpace(s) == TrimRight(TrimLeft(s))

\* strings.Fields: the maximal runs of non-space bytes.
RECURSIVE Fields(_)
Fields(s) ==
    LET t == TrimLeft(s)
        ends == {i \in 1..Len(t) : IsSpace(t[i])}
        e == IF ends = {} THEN Len(t) + 1
             ELSE CHOOSE i \in ends : \A j \in ends : i <= j
    IN  IF t = <<>> THEN <<>>
        ELSE <<SubSeq(t, 1, e - 1)>> \o Fields(Drop(t, e - 1))

UpperCase == <<"A","B","C","D","E","F","G","H","I","J","K","L","M",
               "N","O","P","Q","R","S","T","U","V","W","X","Y","Z">>
LowerCase == <<"a","b","c","d","e","f","g","h","i","j","k","l","m",
               "n","o","p","q","r","s","t","u","v","w","x","y","z">>

ToLowerByte(c) ==
    IF \E i \in 1..Len(UpperCase) : UpperCase[i] = c
    THEN LowerCase[CHOOSE i \in 1..Len(UpperCase) : UpperCase[i] = c]
    ELSE c

ToLower(s) == [i \in 1..Len(s) |-> ToLowerByte(s[i])]

RECURSIVE Repeat(_, _)
Repeat(s, n) == IF n <= 0 THEN <<>> ELSE s \o Repeat(s, n - 1)

RECURSIVE Concat(_)
Concat(ss) == IF ss = <<>> THEN <<>> ELSE Head(ss) \o Concat(Tail(ss))

\* the elements of a sequence
Range(s) == {s[i] : i \in 1..Len(s)}

\* s without the element at 1-based position i
RemoveAt(s, i) == SubSeq(s, 1, i - 1) \o SubSeq(s, i + 1, Len(s))

\* x put at the end of s, whatever the position asked for
InsertAtEnd(s, i, x) == Append(s, x)

\* s with x inserted so that it becomes the element at 1-based position i
InsertAt(s, i, x) == SubSeq(s, 1, i - 1) \o <<x>> \o SubSeq(s, i, Len(s))

Bullet == <<"E2", "80", "A2", " ">>
HollowBullet == <<"E2", "97", "A6", " ">>
ColonColon == <<":", ":">>

(***************************************************************************)
(* Annotation keywords, as byte sequences.                                 *)
(***************************************************************************)
KwCtx == <<"c","t","x">>
KwEureka == <<"e","u","r","e","k","a">>
KwDecision == <<"d","e","c","i","s","i","o","n">>
KwHighlight == <<"h","i","g","h","l","i","g","h","t">>
KwGotcha == <<"g","o","t","c","h","a">>
KwBridge == <<"b","r","i","d","g","e">>
KwConcept == <<"c","o","n","c","e","p","t">>
KwMode == <<"m","o","d","e">>
KwProject == <<"p","r","o","j","e","c","t">>
KwAka == <<"a","k","a">>
KwDispatch == <<"d","i","s","p","a","t","c","h">>
KwReducer == <<"r","e","d","u","c","e","r">>
KwSelector == <<"s","e","l","e","c","t","o","r">>
KwImprint == <<"i","m","p","r","i","n","t">>
KwSigil == <<"s","i","g","i","l">>

(***************************************************************************)
(* Outline nodes, pattern detection and links.                             *)
(***************************************************************************)
\* The keywords detectPatternType scans for, in its order.
DetectPatterns ==
    <<KwCtx, KwEureka, KwDecision, KwHighlight, KwGotcha, KwBridge, KwConcept,
      KwMode, KwProject, KwDispatch, KwReducer, KwSelector, KwImprint, KwSigil>>

detectPatternType(text) ==
    LET hits == {k \in 1..Len(DetectPatterns) :
                    Contains(text, DetectPatterns[k] \o ColonColon)}
    IN  IF hits = {} THEN <<>>
        ELSE DetectPatterns[CHOOSE k \in hits : \A j \in hits : k <= j]

newNode(text, level, id) ==
    [id |-> id, text |-> text, level |-> level, captured |-> FALSE,
     patternType |-> <<>>, links |-> <<>>, backlinks |-> <<>>]

\* The end (the position of the second "]") of a match of \[\[([^\]]+)\]\]
\* that starts at i, or 0 when none starts there.
LinkMatchEnd(text, i) ==
    IF i + 1 > Len(text) \/ text[i] # "[" \/ text[i + 1] # "[" THEN 0
    ELSE LET closers == {j \in (i + 2)..Len(text) : text[j] = "]"}
             j == IF closers = {} THEN 0
                  ELSE CHOOSE x \in closers : \A y \in closers : x <= y
         IN  IF j > i + 2 /\ j + 1 <= Len(text) /\ text[j + 1] = "]"
             THEN j + 1 ELSE 0

\* extractLinks, scanning from position from: the trimmed, non-empty concept
\* of every leftmost non-overlapping match.
RECURSIVE extractLinksFrom(_, _)
extractLinksFrom(text, from) ==
    LET starts == {i \in from..Len(text) : LinkMatchEnd(text, i) # 0}
    IN  IF starts = {} THEN <<>>
        ELSE LET i == CHOOSE x \in starts : \A y \in starts : x <= y
                 e == LinkMatchEnd(text, i)
                 concept == TrimSpace(SubSeq(text, i + 2, e - 2))
             IN  (IF concept # <<>> THEN <<concept>> ELSE <<>>)
                 \o extractLinksFrom(text, e + 1)

extractLinks(text) == extractLinksFrom(text, 1)

addLinkToRegistry(reg, concept, nodeID) ==
    IF concept \notin DOMAIN reg THEN
        [c \in DOMAIN reg \cup {concept} |->
            IF c = concept THEN <<nodeID>> ELSE reg[c]]
    ELSE IF nodeID \in Range(reg[concept]) THEN reg
    ELSE [reg EXCEPT ![concept] = Append(@, nodeID)]

removeLinkFromRegistry(reg, concept, nodeID) ==
    IF concept \notin DOMAIN reg THEN reg
    ELSE LET ids == reg[concept]
             at == {i \in 1..Len(ids) : ids[i] = nodeID}
             rest == IF at = {} THEN ids
                     ELSE RemoveAt(ids, CHOOSE i \in at : \A j \in at : i <= j)
         IN  IF rest = <<>> THEN [c \in DOMAIN reg \ {concept} |-> reg[c]]
             ELSE [reg EXCEPT ![concept] = rest]

RECURSIVE removeLinks(_, _, _)
removeLinks(reg, links, nodeID) ==
    IF links = <<>> THEN reg
    ELSE removeLinks(removeLinkFromRegistry(reg, Head(links), nodeID),
                     Tail(links), nodeID)

RECURSIVE addLinks(_, _, _)
addLinks(reg, links, nodeID) ==
    IF links = <<>> THEN reg
    ELSE addLinks(addLinkToRegistry(reg, Head(links), nodeID),
                  Tail(links), nodeID)

\* updateBacklinks: every node's backlinks are rebuilt from the registry.  The
\* source appends in the iteration order of a Go map, which is not fixed: the
\* list is kept here as a bag, the node ID mapped to its number of entries.
updateBacklinks(ls, reg) ==
    LET ids == {ls[j].id : j \in 1..Len(ls)}
        via(i, id) == {c \in DOMAIN reg :
                          /\ id \in Range(reg[c])
                          /\ Contains(ToLower(ls[i].text), ToLower(c))}
        bag(i) == LET on == {id \in ids : via(i, id) # {}}
                  IN  [id \in on |-> Cardinality(via(i, id))]
    IN  [i \in 1..Len(ls) |-> [ls[i] EXCEPT !.backlinks = bag(i)]]

\* updateNodeLinks(nodeIndex) on the buffer ls and registry reg: the new
\* buffer and registry.
updateNodeLinks(ls, reg, nodeIndex) ==
    IF nodeIndex >= Len(ls) THEN [lines |-> ls, reg |-> reg]
    ELSE LET node == ls[nodeIndex + 1]
             newLinks == extractLinks(node.text)
             reg2 == addLinks(removeLinks(reg, node.links, node.id),
                              newLinks, node.id)
             ls2 == [ls EXCEPT ![nodeIndex + 1].links = newLinks]
         IN  [lines |-> updateBacklinks(ls2, reg2), reg |-> reg2]

\* generateNodeID draws 4 random bytes; a fresh ID is modelled as the least
\* number no node, registry entry, logged action or pending message holds.
NextFreeID(used) ==
    CHOOSE i \in 1..(Cardinality(used) + 1) :
        i \notin used /\ \A j \in 1..(i - 1) : j \in used

TotalChars(ls) == Len(Concat([i \in 1..Len(ls) |-> ls[i].text]))

(***************************************************************************)
(* The annotation parser.  Its source is not part of the files modelled;   *)
(* it is modelled from its specification: the input is split into lines,   *)
(* blank lines are skipped and not counted, and every registered keyword   *)
(* that occurs in a line as "keyword::" yields one annotation whose        *)
(* content is the trimmed rest of the line after the first occurrence.     *)
(***************************************************************************)
ParserPatterns ==
    <<KwCtx, KwEureka, KwDecision, KwHighlight, KwGotcha, KwBridge, KwMode,
      KwProject, KwConcept, KwAka, KwDispatch, KwReducer, KwSelector,
      KwImprint>>

\* the annotations of one line, numbered lineNo
ParseLine(line, lineNo) ==
    LET hit(k) == Contains(line, ParserPatterns[k] \o ColonColon)
        one(k) == LET kw == ParserPatterns[k] \o ColonColon
                  IN  [type |-> ParserPatterns[k],
                       content |->
                           TrimSpace(Drop(line, Index(line, kw) + Len(kw) - 1)),
                       line |-> lineNo]
    IN  Concat([k \in 1..Len(ParserPatterns) |->
                   IF hit(k) THEN <<one(k)>> ELSE <<>>])

RECURSIVE ParseLines(_, _)
ParseLines(ls, lineNo) ==
    IF ls = <<>> THEN <<>>
    ELSE IF TrimSpace(Head(ls)) = <<>> THEN ParseLines(Tail(ls), lineNo)
    ELSE ParseLine(Head(ls), lineNo) \o ParseLines(Tail(ls), lineNo + 1)

\* Parser.Parse(content).ConsciousnessData
Parse(content) == ParseLines(Split(content, <<"\n">>), 1)

(***************************************************************************)
(* The FLOAT dispatch engine.  Its state is the record                     *)
(*   [actions, reducers, selectors, chan]                                  *)
(* of the action log, the reducers by name, the selectors by name and the  *)
(* outliner's notification channel, which the registered callback fills.   *)
(* Go ranges over maps in an order that is not fixed, so an operation that *)
(* ranges over one yields the set of its possible results.                 *)
(***************************************************************************)
ImTechcraft == <<"t","e","c","h","c","r","a","f","t">>
ImRitualComputing == <<"r","i","t","u","a","l","_","c","o","m","p","u","t","i","n","g">>
ImFeralDuality == <<"f","e","r","a","l","_","d","u","a","l","i","t","y">>
ImDispatchBay == <<"d","i","s","p","a","t","c","h","_","b","a","y">>
ImQueerHauntology == <<"q","u","e","e","r","_","h","a","u","n","t","o","l","o","g","y">>

\* initializeImprints: the imprints and the pattern types each accepts
ImprintFilters ==
    <<[name |-> ImTechcraft,
       filters |-> {KwHighlight, KwDecision, KwGotcha, KwBridge}],
      [name |-> ImRitualComputing,
       filters |-> {KwCtx, KwBridge, KwConcept}],
      [name |-> ImFeralDuality,
       filters |-> {KwEureka, KwDispatch, KwGotcha}],
      [name |-> ImDispatchBay,
       filters |-> {KwCtx, KwDispatch, KwBridge}],
      [name |-> ImQueerHauntology,
       filters |-> {KwHighlight, KwEureka, KwConcept}]>>

Digits == {"0","1","2","3","4","5","6","7","8","9"}
WordBytes == Range(UpperCase) \cup Range(LowerCase) \cup Digits \cup {"_"}

\* A character class of a regular expression: the bytes listed, or with
\* negated the bytes not listed.
InClass(c, class) == (c \in class.bytes) # class.negated

\* \w
WordClass == [bytes |-> WordBytes, negated |-> FALSE]
\* [^\s\]]
SigilClass == [bytes |-> {" ", "\t", "\n", "\r", "\f", "]"}, negated |-> TRUE]

\* The longest prefix of s whose bytes are all in the class.
TakeWhile(s, class) ==
    LET good == {n \in 0..Len(s) : \A i \in 1..n : InClass(s[i], class)}
    IN  SubSeq(s, 1, CHOOSE n \in good : \A m \in good : m <= n)

\* The first submatch of the regular expression  marker(class+) in content;
\* <<>> when there is no match.
FindMarked(content, marker, class) ==
    LET at == {i \in 1..Len(content) :
                  /\ HasPrefix(Drop(content, i - 1), marker)
                  /\ i + Len(marker) <= Len(content)
                  /\ InClass(content[i + Len(marker)], class)}
    IN  IF at = {} THEN <<>>
        ELSE LET i == CHOOSE x \in at : \A y \in at : x <= y
             IN  TakeWhile(Drop(content, i + Len(marker) - 1), class)

extractImprint(content) ==
    FindMarked(content, KwImprint \o ColonColon, WordClass)

extractSigil(content) ==
    FindMarked(content, KwSigil \o ColonColon, SigilClass)

routeToImprintAny(patternType) ==
    {ImprintFilters[k].name : k \in 1..Len(ImprintFilters)}

\* routeToImprint: the imprints the range over the map can return
routeToImprint(patternType) ==
    LET accepting == {ImprintFilters[k].name : k \in
                         {j \in 1..Len(ImprintFilters) :
                             patternType \in ImprintFilters[j].filters}}
    IN  IF accepting = {} THEN {ImDispatchBay} ELSE accepting

StateCapture == "capture"
StateDispatch == "dispatch"

KwAbout == <<"a","b","o","u","t"," ">>
KwThatMention == <<"t","h","a","t"," ","m","e","n","t","i","o","n"," ">>
KwBridges == <<"b","r","i","d","g","e","s">>
KwRangle == <<"r","a","n","g","l","e">>

\* The keywords the matcher of handleReducerPattern takes from a query.
matcherKeywords(queryLower) ==
    IF Contains(queryLower, KwAbout) THEN
        LET parts == Split(queryLower, KwAbout)
        IN  IF Len(parts) > 1 THEN Fields(parts[2]) ELSE <<>>
    ELSE IF Contains(queryLower, KwThatMention) THEN
        LET parts == Split(queryLower, KwThatMention)
        IN  IF Len(parts) > 1 THEN Fields(parts[2]) ELSE <<>>
    ELSE <<>>

\* The matcher handleReducerPattern builds for a query.
matcher(query, action) ==
    LET content == ToLower(action.content)
        queryLower == ToLower(query)
        keywords == matcherKeywords(queryLower)
    IN  \/ \E k \in 1..Len(keywords) : Contains(content, keywords[k])
        \/ Contains(queryLower, KwBridges) /\ action.patternType = KwBridge
        \/ Contains(queryLower, KwRangle) /\ Contains(content, KwRangle)

\* the sequences that list every element of the finite set S once
RECURSIVE Perms(_)
Perms(S) ==
    IF S = {} THEN {<<>>}
    ELSE UNION {{<<x>> \o p : p \in Perms(S \ {x})} : x \in S}

\* a send that queues the message whatever the channel holds
reducerUpdateCallbackQueue(chan, reducerName, action) ==
    Append(chan, [reducerName |-> reducerName, action |-> action])

\* The callback New registers: a send that does not block; a full channel
\* drops the message.
reducerUpdateCallback(chan, reducerName, action) ==
    IF Len(chan) < ChannelCap
    THEN Append(chan, [reducerName |-> reducerName, action |-> action])
    ELSE chan

\* The engine's call of the registered callback, once per reducer that took
\* the action, in the order the reducers were visited.  (The engine source
\* modelled here predates the callback; the call is modelled from its
\* specification.)
RECURSIVE notifyReducerUpdate(_, _, _)
notifyReducerUpdate(chan, names, action) ==
    IF names = <<>> THEN chan
    ELSE notifyReducerUpdate(reducerUpdateCallback(chan, Head(names), action),
                             Tail(names), action)

\* AddReducer without the pass over the existing actions
AddReducerNoBackfill(D, name, query) ==
    [D EXCEPT !.reducers =
        (name :> [query |-> query, actions |-> <<>>]) @@ D.reducers]

AddReducer(D, name, query) ==
    LET collected == SelectSeq(D.actions, LAMBDA a : matcher(query, a))
        reducer == [query |-> query, actions |-> collected]
    IN  [D EXCEPT !.reducers = (name :> reducer) @@ D.reducers]

\* updateReducers without the matcher: every reducer takes the action
updateReducersAll(D, action) ==
    {[D EXCEPT !.reducers =
                  [n \in DOMAIN D.reducers |->
                      [D.reducers[n] EXCEPT !.actions = Append(@, action)]],
               !.chan = notifyReducerUpdate(D.chan, order, action)] :
        order \in Perms(DOMAIN D.reducers)}

\* updateReducers: the possible results of the range over the reducers
updateReducers(D, action) ==
    LET hit == {n \in DOMAIN D.reducers : matcher(D.reducers[n].query, action)}
        reds == [n \in DOMAIN D.reducers |->
                    IF n \in hit
                    THEN [D.reducers[n] EXCEPT !.actions = Append(@, action)]
                    ELSE D.reducers[n]]
    IN  {[D EXCEPT !.reducers = reds,
                   !.chan = notifyReducerUpdate(D.chan, order, action)] :
            order \in Perms(hit)}

RECURSIVE Itoa(_)
Itoa(n) ==
    LET digit == <<"0","1","2","3","4","5","6","7","8","9">>
    IN  IF n < 10 THEN <<digit[n + 1]>>
        ELSE Itoa(n \div 10) \o <<digit[(n % 10) + 1]>>

\* The transform handleSelectorPattern builds, over the input map whose
\* entries the range visits in the given order.
transform(outputFormat, order, reds) ==
    LET item(a) == <<"-"," ">> \o a.patternType \o <<":"," ">> \o a.content
                   \o <<"\n">>
        section(n) ==
            <<"#","#"," ","F","r","o","m"," ">> \o n \o <<" ","(">>
            \o Itoa(Len(reds[n].actions))
            \o <<" ","i","t","e","m","s",")","\n">>
            \o Concat([k \in 1..Len(reds[n].actions) |->
                          item(reds[n].actions[k])])
            \o <<"\n">>
    IN  <<"#"," ">> \o outputFormat \o <<"\n","\n">>
        \o Concat([k \in 1..Len(order) |-> section(order[k])])

\* updateSelector: the outputs the transform can produce for a selector
\* updateSelector that gives a missing reducer an entry with no actions
updateSelectorAllInputs(selector, reds) ==
    LET names == Range(selector.inputs)
        all == [n \in names \cup DOMAIN reds |->
                   IF n \in DOMAIN reds THEN reds[n]
                   ELSE [query |-> <<>>, actions |-> <<>>]]
    IN  {[selector EXCEPT !.output = transform(selector.outputFormat, order, all)] :
            order \in Perms(names)}

updateSelector(selector, reds) ==
    LET present == {n \in Range(selector.inputs) : n \in DOMAIN reds}
    IN  {[selector EXCEPT !.output = transform(selector.outputFormat, order, reds)] :
            order \in Perms(present)}

\* updateSelectors that leaves every output as it was
updateSelectorsSkip(D) == {D}

\* updateSelectors: the possible selector maps after every selector is updated
updateSelectors(D) ==
    LET names == DOMAIN D.selectors
        all == UNION {updateSelector(D.selectors[n], D.reducers) : n \in names}
    IN  {[D EXCEPT !.selectors = f] :
            f \in {g \in [names -> all] :
                      \A n \in names :
                          g[n] \in updateSelector(D.selectors[n], D.reducers)}}

AddSelector(D, name, inputs, outputFormat) ==
    LET selector == [inputs |-> inputs, outputFormat |-> outputFormat,
                     output |-> <<>>]
    IN  {[D EXCEPT !.selectors = (name :> s) @@ D.selectors] :
            s \in updateSelector(selector, D.reducers)}

\* The action Dispatch builds, logged at the given position with the imprint
\* chosen.
NewActionCaptured(D, nodeID, content, patternType, imprint) ==
    [id |-> Len(D.actions) + 1, nodeID |-> nodeID, content |-> content,
     patternType |-> patternType, imprint |-> imprint,
     sigil |-> extractSigil(content), state |-> StateCapture]

NewAction(D, nodeID, content, patternType, imprint) ==
    [id |-> Len(D.actions) + 1, nodeID |-> nodeID, content |-> content,
     patternType |-> patternType, imprint |-> imprint,
     sigil |-> extractSigil(content), state |-> StateDispatch]

\* a log that keeps only the newest action
appendActionReset(D, action) == [D EXCEPT !.actions = <<action>>]

\* fds.actions = append(fds.actions, action)
appendAction(D, action) == [D EXCEPT !.actions = Append(@, action)]

\* Dispatch: the possible engine states after it returns
Dispatch(D, nodeID, content, patternType) ==
    LET explicit == extractImprint(content)
        imprints == IF explicit = <<>> THEN routeToImprint(patternType)
                    ELSE {explicit}
        logged(a) == appendAction(D, a)
    IN  UNION {UNION {updateSelectors(D2) :
                         D2 \in updateReducers(
                                   logged(NewAction(D, nodeID, content,
                                                    patternType, im)),
                                   NewAction(D, nodeID, content,
                                             patternType, im))} :
                  im \in imprints}

(***************************************************************************)
(* The capture pass.                                                       *)
(***************************************************************************)
GetContent(ls) ==
    Concat([i \in 1..Len(ls) |->
               Repeat(<<" "," ">>, ls[i].level) \o Bullet \o ls[i].text
               \o <<"\n">>])

handleReducerPattern(D, pattern) ==
    LET parts == SplitN2(pattern.content, <<" ">>)
    IN  IF Len(parts) < 2 THEN {D}
        ELSE {AddReducer(D, parts[1], parts[2])}

\* strings.Trim(s, "()")
RECURSIVE TrimParens(_)
TrimParens(s) ==
    IF s # <<>> /\ Head(s) \in {"(", ")"} THEN TrimParens(Tail(s))
    ELSE IF s # <<>> /\ s[Len(s)] \in {"(", ")"}
    THEN TrimParens(SubSeq(s, 1, Len(s) - 1))
    ELSE s

\* The name handleSelectorPattern draws for a new selector is "selector_" and
\* a random suffix: modelled as the least number that names no selector.
handleSelectorPattern(D, pattern) ==
    LET content == pattern.content
        parts == Split(content, <<"=",">">>)
        raw == Split(TrimParens(TrimSpace(parts[1])), <<",">>)
        inputs == [i \in 1..Len(raw) |-> TrimSpace(raw[i])]
    IN  IF Contains(content, <<"=",">">>) /\ Len(parts) = 2
        THEN AddSelector(D, NextFreeID(DOMAIN D.selectors), inputs,
                         TrimSpace(parts[2]))
        ELSE {D}

handleFloatPattern(D, pattern) ==
    IF pattern.type = KwReducer THEN handleReducerPattern(D, pattern)
    ELSE IF pattern.type = KwSelector THEN handleSelectorPattern(D, pattern)
    ELSE {D}

\* a marking pass that also drops the nodes it does not count
markNodesAsCapturedCompacting(ls, patterns) ==
    LET capturedLines == {patterns[k].line : k \in 1..Len(patterns)}
        kept == SelectSeq(ls, LAMBDA n : n.text # <<>>)
    IN  [i \in 1..Len(kept) |->
            IF i \in capturedLines
            THEN [kept[i] EXCEPT !.captured = TRUE]
            ELSE kept[i]]

markNodesAsCaptured(ls, patterns) ==
    LET capturedLines == {patterns[k].line : k \in 1..Len(patterns)}
        lineNum(i) == 1 + Cardinality({j \in 1..(i - 1) : ls[j].text # <<>>})
    IN  [i \in 1..Len(ls) |->
            IF ls[i].text # <<>> /\ lineNum(i) \in capturedLines
            THEN [ls[i] EXCEPT !.captured = TRUE]
            ELSE ls[i]]

\* EvnaDispatcher.DispatchPatterns for one pattern.  dispatchSinglePattern
\* returns the error of json.Marshal, an outcome left open here; on an error
\* the logger New registered adds a warning to the debug panel.  Either way
\* DispatchPatterns returns nil.
DispatchPatterns(D, pattern) ==
    {D, [D EXCEPT !.warnings = Append(@, pattern.type)]}

\* One round of the loop of captureConsciousness: the special handling of
\* the pattern, its dispatch, its forwarding.
\* the loop body with the node looked up at the line number itself
captureStepNextNode(D, ls, pattern) ==
    LET nodeID == IF pattern.line < Len(ls) THEN ls[pattern.line + 1].id ELSE 0
    IN  UNION {UNION {DispatchPatterns(D2, pattern) :
                         D2 \in Dispatch(D1, nodeID, pattern.content,
                                         pattern.type)} :
                  D1 \in handleFloatPattern(D, pattern)}

captureStep(D, ls, pattern) ==
    LET nodeID == IF pattern.line <= Len(ls) THEN ls[pattern.line].id ELSE 0
    IN  UNION {UNION {DispatchPatterns(D2, pattern) :
                         D2 \in Dispatch(D1, nodeID, pattern.content,
                                         pattern.type)} :
                  D1 \in handleFloatPattern(D, pattern)}

\* a loop that stops at the first pattern whose forwarding has failed
RECURSIVE capturePatternsAbort(_, _, _)
capturePatternsAbort(Ds, ls, patterns) ==
    IF patterns = <<>> THEN Ds
    ELSE UNION {UNION {IF Len(D2.warnings) > Len(D.warnings) THEN {D2}
                       ELSE capturePatternsAbort({D2}, ls, Tail(patterns)) :
                          D2 \in captureStep(D, ls, Head(patterns))} :
                   D \in Ds}

\* The engine states the loop of captureConsciousness can reach from the
\* states Ds over the remaining patterns.
RECURSIVE capturePatterns(_, _, _)
capturePatterns(Ds, ls, patterns) ==
    IF patterns = <<>> THEN Ds
    ELSE capturePatterns(UNION {captureStep(D, ls, Head(patterns)) : D \in Ds},
                         ls, Tail(patterns))

\* a pass that leaves out the annotations of nodes already captured
captureConsciousnessFresh(ls, D) ==
    LET all == Parse(GetContent(ls))
        parsed == SelectSeq(all, LAMBDA p :
                     ~(p.line <= Len(ls) /\ ls[p.line].captured))
    IN  IF Len(parsed) > 0
        THEN {[lines |-> markNodesAsCaptured(ls, parsed), D |-> D2] :
                 D2 \in capturePatterns({D}, ls, parsed)}
        ELSE {[lines |-> ls, D |-> D]}

\* captureConsciousness: the possible (buffer, engine) results
captureConsciousness(ls, D) ==
    LET parsed == Parse(GetContent(ls))
    IN  IF Len(parsed) > 0
        THEN {[lines |-> markNodesAsCaptured(ls, parsed), D |-> D2] :
                 D2 \in capturePatterns({D}, ls, parsed)}
        ELSE {[lines |-> ls, D |-> D]}

(***************************************************************************)
(* SetContent.                                                             *)
(***************************************************************************)
\* the number of leading two-space groups
RECURSIVE indentLevel(_)
indentLevel(line) ==
    IF HasPrefix(line, <<" "," ">>) THEN 1 + indentLevel(Drop(line, 2)) ELSE 0

\* the node SetContent makes of one non-blank line
lineNode(line, id) ==
    LET level == indentLevel(line)
        trimmed == TrimPrefix(TrimPrefix(Drop(line, 2 * level), Bullet),
                              HollowBullet)
    IN  [newNode(trimmed, level, id) EXCEPT
            !.patternType = detectPatternType(trimmed)]

RECURSIVE contentNodes(_, _)
contentNodes(srcLines, used) ==
    IF srcLines = <<>> THEN <<>>
    ELSE IF TrimSpace(Head(srcLines)) = <<>>
    THEN contentNodes(Tail(srcLines), used)
    ELSE LET id == NextFreeID(used)
         IN  <<lineNode(Head(srcLines), id)>>
             \o contentNodes(Tail(srcLines), used \cup {id})

\* updateNodeLinks(i) for i = from .. len(lines) - 1
RECURSIVE updateAllLinks(_, _, _)
updateAllLinks(ls, reg, from) ==
    IF from >= Len(ls) THEN [lines |-> ls, reg |-> reg]
    ELSE LET r == updateNodeLinks(ls, reg, from)
         IN  updateAllLinks(r.lines, r.reg, from + 1)

\* loadContent without the node that replaces an empty result
loadContentNoDefault(content, reg, used) ==
    updateAllLinks(contentNodes(Split(content, <<"\n">>), used), reg, 0)

\* The buffer and registry SetContent has built when it starts the capture.
loadContent(content, reg, used) ==
    LET nodes == contentNodes(Split(content, <<"\n">>), used)
        ls == IF Len(nodes) = 0 THEN <<newNode(<<>>, 0, NextFreeID(used))>>
              ELSE nodes
    IN  updateAllLinks(ls, reg, 0)

(***************************************************************************)
(* The state machine.                                                      *)
(***************************************************************************)
Engine ==
    [actions |-> actions, reducers |-> reducers, selectors |-> selectors,
     chan |-> reducerUpdates, warnings |-> evnaWarnings]

\* the node IDs held outside the buffer
HeldIDs ==
    UNION {Range(linkRegistry[c]) : c \in DOMAIN linkRegistry}
    \cup {actions[k].nodeID : k \in 1..Len(actions)}
    \cup {reducerUpdates[k].action.nodeID : k \in 1..Len(reducerUpdates)}

UsedIDs == HeldIDs \cup {lines[i].id : i \in 1..Len(lines)}

\* New()
Init ==
    /\ lines = <<newNode(<<>>, 0, 1)>>
    /\ cursor = 0
    /\ cursorPos = 0
    /\ focused = FALSE
    /\ linkRegistry = <<>>
    /\ actions = <<>>
    /\ reducers = <<>>
    /\ selectors = <<>>
    /\ reducerUpdates = <<>>
    /\ evnaWarnings = <<>>
    /\ listeners = 0
    /\ op = "new"

\* The engine is left alone; so are the listeners, which only a Focus whose
\* command the host runs and the delivery of a message start and end.
EngineUnchanged ==
    UNCHANGED <<actions, reducers, selectors, reducerUpdates, evnaWarnings,
                listeners>>

SetEngine(D) ==
    /\ actions' = D.actions
    /\ reducers' = D.reducers
    /\ selectors' = D.selectors
    /\ reducerUpdates' = D.chan
    /\ evnaWarnings' = D.warnings
    /\ UNCHANGED listeners

Focus ==
    /\ focused' = TRUE
    /\ op' = "focus"
    /\ UNCHANGED <<lines, cursor, cursorPos, linkRegistry>>
    /\ EngineUnchanged

\* Focus() with the command it returns run by the host: one more goroutine
\* blocks on the channel.
FocusListening ==
    /\ listeners < MaxListeners
    /\ focused' = TRUE
    /\ listeners' = listeners + 1
    /\ op' = "focus"
    /\ UNCHANGED <<lines, cursor, cursorPos, linkRegistry, actions, reducers,
                   selectors, reducerUpdates, evnaWarnings>>

Blur ==
    /\ focused' = FALSE
    /\ op' = "blur"
    /\ UNCHANGED <<lines, cursor, cursorPos, linkRegistry>>
    /\ EngineUnchanged

\* Update returns at once unless the outliner is focused.
KeyHandled == focused

CurLine == lines[cursor + 1]

Tab ==
    /\ KeyHandled
    /\ lines' = IF cursor < Len(lines)
                THEN [lines EXCEPT ![cursor + 1].level =
                         IF @ + 1 > MaxIndent THEN MaxIndent ELSE @ + 1]
                ELSE lines
    /\ op' = "tab"
    /\ UNCHANGED <<cursor, cursorPos, focused, linkRegistry>>
    /\ EngineUnchanged

\* a Shift+Tab that outdents every line below the cursor as well
ShiftTabBelow ==
    /\ KeyHandled
    /\ lines' = [i \in 1..Len(lines) |->
                    IF i >= cursor + 1 /\ lines[i].level > 0
                    THEN [lines[i] EXCEPT !.level = @ - 1]
                    ELSE lines[i]]
    /\ op' = "shift+tab"
    /\ UNCHANGED <<cursor, cursorPos, focused, linkRegistry>>
    /\ EngineUnchanged

ShiftTab ==
    /\ KeyHandled
    /\ lines' = IF cursor < Len(lines) /\ CurLine.level > 0
                THEN [lines EXCEPT ![cursor + 1].level = @ - 1]
                ELSE lines
    /\ op' = "shift+tab"
    /\ UNCHANGED <<cursor, cursorPos, focused, linkRegistry>>
    /\ EngineUnchanged

\* Enter, while the buffer has fewer than maxLines lines
Enter(maxLines) ==
    /\ KeyHandled
    /\ Len(lines) < maxLines
    /\ IF cursor < Len(lines)
       THEN /\ lines' = InsertAt(lines, cursor + 2,
                                 newNode(<<>>, CurLine.level,
                                         NextFreeID(UsedIDs)))
            /\ cursor' = cursor + 1
            /\ cursorPos' = 0
       ELSE UNCHANGED <<lines, cursor, cursorPos>>
    /\ op' = "enter"
    /\ UNCHANGED <<focused, linkRegistry>>
    /\ EngineUnchanged

\* the column kept as it is, whatever the length of line c
ClampPosKeep(c) == cursorPos

\* the column after a move to line c
ClampPos(c) ==
    IF cursorPos > Len(lines[c + 1].text) THEN Len(lines[c + 1].text)
    ELSE cursorPos

Up ==
    /\ KeyHandled
    /\ IF cursor > 0
       THEN cursor' = cursor - 1 /\ cursorPos' = ClampPos(cursor - 1)
       ELSE UNCHANGED <<cursor, cursorPos>>
    /\ op' = "up"
    /\ UNCHANGED <<lines, focused, linkRegistry>>
    /\ EngineUnchanged

Down ==
    /\ KeyHandled
    /\ IF cursor < Len(lines) - 1
       THEN cursor' = cursor + 1 /\ cursorPos' = ClampPos(cursor + 1)
       ELSE UNCHANGED <<cursor, cursorPos>>
    /\ op' = "down"
    /\ UNCHANGED <<lines, focused, linkRegistry>>
    /\ EngineUnchanged

\* a Left that wraps to the end of the previous line at column 0
LeftWrapping ==
    /\ KeyHandled
    /\ IF cursorPos > 0
       THEN cursorPos' = cursorPos - 1 /\ cursor' = cursor
       ELSE IF cursor > 0
       THEN cursor' = cursor - 1 /\ cursorPos' = Len(lines[cursor].text)
       ELSE UNCHANGED <<cursor, cursorPos>>
    /\ op' = "left"
    /\ UNCHANGED <<lines, focused, linkRegistry>>
    /\ EngineUnchanged

Left ==
    /\ KeyHandled
    /\ cursorPos' = IF cursorPos > 0 THEN cursorPos - 1 ELSE cursorPos
    /\ op' = "left"
    /\ UNCHANGED <<lines, cursor, focused, linkRegistry>>
    /\ EngineUnchanged

Right ==
    /\ KeyHandled
    /\ cursorPos' = IF cursor < Len(lines) /\ cursorPos < Len(CurLine.text)
                    THEN cursorPos + 1 ELSE cursorPos
    /\ op' = "right"
    /\ UNCHANGED <<lines, cursor, focused, linkRegistry>>
    /\ EngineUnchanged

Home ==
    /\ KeyHandled
    /\ cursorPos' = 0
    /\ op' = "home"
    /\ UNCHANGED <<lines, cursor, focused, linkRegistry>>
    /\ EngineUnchanged

End ==
    /\ KeyHandled
    /\ cursorPos' = IF cursor < Len(lines) THEN Len(CurLine.text)
                    ELSE cursorPos
    /\ op' = "end"
    /\ UNCHANGED <<lines, cursor, focused, linkRegistry>>
    /\ EngineUnchanged

\* a merge that drops the text of the removed line
mergeLinesDropText(ls, c) == RemoveAt(ls, c + 1)

\* The buffer after the merge of line c (0-based, c > 0) into line c - 1.
mergeLines(ls, c) ==
    RemoveAt([ls EXCEPT ![c].text = @ \o ls[c + 1].text], c + 1)

\* A slice expression text[:p] or text[p:] panics unless 0 <= p <= len(text);
\* the handlers that slice are enabled only where they do not.
Backspace ==
    /\ KeyHandled
    /\ cursorPos <= Len(CurLine.text)
    /\ IF cursor < Len(lines) /\ cursorPos > 0
       THEN /\ lines' = [lines EXCEPT ![cursor + 1].text =
                            RemoveAt(@, cursorPos)]
            /\ cursorPos' = cursorPos - 1
            /\ cursor' = cursor
            /\ op' = "backspace_char"
       ELSE IF cursor < Len(lines) /\ cursor > 0
       THEN /\ cursorPos' = Len(lines[cursor].text)
            /\ lines' = mergeLines(lines, cursor)
            /\ cursor' = cursor - 1
            /\ op' = "backspace_merge"
       ELSE /\ UNCHANGED <<lines, cursor, cursorPos>>
            /\ op' = "backspace_none"
    /\ UNCHANGED <<focused, linkRegistry>>
    /\ EngineUnchanged

\* a Delete that joins the next line at the end of a line
DeleteMerging ==
    /\ KeyHandled
    /\ cursorPos <= Len(CurLine.text)
    /\ lines' = IF cursor < Len(lines) /\ cursorPos < Len(CurLine.text)
                THEN [lines EXCEPT ![cursor + 1].text =
                         RemoveAt(@, cursorPos + 1)]
                ELSE IF cursor < Len(lines) - 1
                THEN mergeLines(lines, cursor + 1)
                ELSE lines
    /\ op' = "delete"
    /\ UNCHANGED <<cursor, cursorPos, focused, linkRegistry>>
    /\ EngineUnchanged

Delete ==
    /\ KeyHandled
    /\ cursorPos <= Len(CurLine.text)
    /\ lines' = IF cursor < Len(lines) /\ cursorPos < Len(CurLine.text)
                THEN [lines EXCEPT ![cursor + 1].text =
                         RemoveAt(@, cursorPos + 1)]
                ELSE lines
    /\ op' = "delete"
    /\ UNCHANGED <<cursor, cursorPos, focused, linkRegistry>>
    /\ EngineUnchanged

InsertCharWithin(maxChars, char) ==
    /\ KeyHandled
    /\ cursorPos <= Len(CurLine.text)
    /\ TotalChars(lines) < maxChars
    /\ IF cursor < Len(lines)
       THEN LET typed == [lines EXCEPT
                             ![cursor + 1].text = InsertAt(@, cursorPos + 1, char),
                             ![cursor + 1].captured = FALSE]
                r == updateNodeLinks(typed, linkRegistry, cursor)
            IN  /\ lines' = r.lines
                /\ linkRegistry' = r.reg
                /\ cursorPos' = cursorPos + 1
       ELSE UNCHANGED <<lines, linkRegistry, cursorPos>>
    /\ op' = "insert"
    /\ UNCHANGED <<cursor, focused>>
    /\ EngineUnchanged

InsertChar(char) == InsertCharWithin(MaxChars, char)

\* SetContent(content), the capture it ends with included
SetContent(content) ==
    LET loaded == loadContent(content, linkRegistry, HeldIDs)
    IN  /\ Len(actions) + Len(Parse(GetContent(loaded.lines))) <= MaxActions
        /\ \E r \in captureConsciousness(loaded.lines, Engine) :
              /\ lines' = r.lines
              /\ SetEngine(r.D)
        /\ linkRegistry' = loaded.reg
        /\ cursor' = 0
        /\ cursorPos' = 0
        /\ op' = "set_content"
        /\ UNCHANGED focused

\* an insertion directly below the reducer's node, above its children
handleReducerUpdateMessageOnTop(ls, msg, id) ==
    LET found == {i \in 1..Len(ls) :
                     /\ ls[i].patternType = KwReducer
                     /\ Contains(ls[i].text, msg.reducerName)}
    IN  IF found = {} THEN ls
        ELSE LET i == CHOOSE x \in found : \A y \in found : x <= y
             IN  InsertAt(ls, i + 1,
                          [id |-> id,
                           text |-> msg.action.patternType \o <<":"," ">>
                                    \o msg.action.content,
                           level |-> ls[i].level + 1, captured |-> TRUE,
                           patternType |-> msg.action.patternType,
                           links |-> <<>>, backlinks |-> <<>>])

\* handleReducerUpdateMessage: the buffer after the message; id is the ID
\* generateNodeID gives the child node.
handleReducerUpdateMessage(ls, msg, id) ==
    LET found == {i \in 1..Len(ls) :
                     /\ ls[i].patternType = KwReducer
                     /\ Contains(ls[i].text, msg.reducerName)}
    IN  IF found = {} THEN ls
        ELSE LET i == CHOOSE x \in found : \A y \in found : x <= y
                 childNode ==
                     [id |-> id,
                      text |-> msg.action.patternType \o <<":"," ">>
                               \o msg.action.content,
                      level |-> ls[i].level + 1, captured |-> TRUE,
                      patternType |-> msg.action.patternType,
                      links |-> <<>>, backlinks |-> <<>>]
                 stops == {j \in (i + 1)..Len(ls) : ls[j].level <= ls[i].level}
                 insertIndex == IF stops = {} THEN Len(ls) + 1
                                ELSE CHOOSE x \in stops : \A y \in stops : x <= y
             IN  InsertAt(ls, insertIndex, childNode)

\* A listener receives the oldest message and the host hands it to Update.
\* Update handles it and returns the listen command again, unless the
\* outliner is not focused: then it returns early with no command.
ReceiveReducerUpdate ==
    /\ listeners > 0
    /\ reducerUpdates # <<>>
    /\ reducerUpdates' = Tail(reducerUpdates)
    /\ IF focused
       THEN /\ lines' = handleReducerUpdateMessage(lines, Head(reducerUpdates),
                                                   NextFreeID(UsedIDs))
            /\ listeners' = listeners
            /\ op' = "reducer_update"
       ELSE /\ lines' = lines
            /\ listeners' = listeners - 1
            /\ op' = "reducer_update_dropped"
    /\ UNCHANGED <<cursor, cursorPos, focused, linkRegistry, actions, reducers,
                   selectors, evnaWarnings>>

TriggerConsciousnessCapture ==
    /\ Len(actions) + Len(Parse(GetContent(lines))) <= MaxActions
    /\ \E r \in captureConsciousness(lines, Engine) :
          /\ lines' = r.lines
          /\ SetEngine(r.D)
    /\ op' = "capture"
    /\ UNCHANGED <<cursor, cursorPos, focused, linkRegistry>>

\* FloatDispatchSystem.Dispatch, called on the engine directly
DoDispatch(nodeID, content, patternType) ==
    /\ Len(actions) < MaxActions
    /\ \E D \in Dispatch(Engine, nodeID, content, patternType) : SetEngine(D)
    /\ op' = "dispatch"
    /\ UNCHANGED <<lines, cursor, cursorPos, focused, linkRegistry>>

\* FloatDispatchSystem.Dispatch, while the log holds fewer than maxLog actions
DispatchWithin(maxLog, nodeID, content, patternType) ==
    /\ Len(actions) < maxLog
    /\ \E D \in Dispatch(Engine, nodeID, content, patternType) : SetEngine(D)
    /\ op' = "dispatch"
    /\ UNCHANGED <<lines, cursor, cursorPos, focused, linkRegistry>>

\* FloatDispatchSystem.AddReducer with the matcher of the query
DoAddReducer(name, query) ==
    /\ SetEngine(AddReducer(Engine, name, query))
    /\ op' = "add_reducer"
    /\ UNCHANGED <<lines, cursor, cursorPos, focused, linkRegistry>>

\* FloatDispatchSystem.AddSelector with the transform of the output format
DoAddSelector(name, inputs, outputFormat) ==
    /\ \E D \in AddSelector(Engine, name, inputs, outputFormat) : SetEngine(D)
    /\ op' = "add_selector"
    /\ UNCHANGED <<lines, cursor, cursorPos, focused, linkRegistry>>

(***************************************************************************)
(* Inputs.                                                                 *)
(***************************************************************************)
TypedChars == {"a", "b"}

TxtEmpty == <<>>
TxtBlank == <<" ","\n","\n"," "," ","\n">>
TxtOutline == <<"E2","80","A2"," ","a","\n"," "," ","E2","97","A6"," ","b","\n">>
TxtDeep == <<" "," "," "," "," "," "," "," "," "," "," "," "," "," "," "," ","a">>
EditContents == {TxtEmpty, TxtBlank, TxtOutline, TxtDeep}

\* The editor: every key and SetContent.
Next ==
    \/ Focus
    \/ Blur
    \/ Tab
    \/ ShiftTab
    \/ Enter(MaxLines)
    \/ Up
    \/ Down
    \/ Left
    \/ Right
    \/ Home
    \/ End
    \/ Backspace
    \/ Delete
    \/ \E char \in TypedChars : InsertChar(char)
    \/ \E content \in EditContents : SetContent(content)

Spec == Init /\ [][Next]_vars

\* The line structure: Enter and Backspace over outlines of up to MaxOutline
\* lines.
NextLines ==
    \/ Focus
    \/ Enter(MaxOutline)
    \/ Backspace
    \/ Up
    \/ Down
    \/ Left
    \/ Right
    \/ \E char \in TypedChars : InsertChar(char)
    \/ \E content \in {TxtEmpty, TxtOutline} : SetContent(content)

SpecLines == Init /\ [][NextLines]_vars

TxtHelloWorld == <<"h","e","l","l","o"," ","w","o","r","l","d">>
TxtGoodbyeWorld == <<"g","o","o","d","b","y","e"," ","w","o","r","l","d">>
NameGreetings == <<"g","r","e","e","t","i","n","g","s">>
NameWorlds == <<"w","o","r","l","d","s">>
QueryHello == <<"c","o","l","l","e","c","t"," ","a","l","l"," ","a","c","t","i","o","n","s"," ","t","h","a","t"," ","m","e","n","t","i","o","n"," ","h","e","l","l","o">>
QueryWorld == <<"t","h","a","t"," ","m","e","n","t","i","o","n"," ","w","o","r","l","d">>
FormatToc == <<"t","o","c">>
\* the buffer of the greetings scenario
TxtGreetings ==
    KwReducer \o ColonColon \o <<" ">> \o NameGreetings \o <<" ">> \o QueryHello
    \o <<"\n">> \o KwDispatch \o ColonColon \o <<" ">> \o TxtHelloWorld
    \o <<"\n">> \o KwDispatch \o ColonColon \o <<" ">> \o TxtGoodbyeWorld
\* a one-line buffer with one annotation
TxtDecision == Bullet \o KwDecision \o ColonColon \o <<" ">> \o TxtGoodbyeWorld

DispatchContents == {TxtHelloWorld, TxtGoodbyeWorld}
ReducerDefs == {<<NameGreetings, QueryHello>>, <<NameWorlds, QueryWorld>>}
SelectorInputs == {<<NameGreetings>>, <<NameGreetings, NameWorlds>>}
EngineContents == {TxtGreetings, TxtDecision}

\* The dispatch engine, called directly.
NextEngine ==
    \/ \E content \in DispatchContents : DoDispatch(0, content, KwDecision)
    \/ \E def \in ReducerDefs : DoAddReducer(def[1], def[2])
    \/ \E inputs \in SelectorInputs : DoAddSelector(1, inputs, FormatToc)

SpecEngine == Init /\ [][NextEngine]_vars

\* The engine under the captures of the buffer and direct calls.
NextCapture ==
    \/ \E content \in EngineContents : SetContent(content)
    \/ TriggerConsciousnessCapture
    \/ DoDispatch(0, TxtHelloWorld, KwDecision)
    \/ DoAddReducer(NameWorlds, QueryWorld)
    \/ DoAddSelector(1, <<NameGreetings>>, FormatToc)

SpecCapture == Init /\ [][NextCapture]_vars

\* A burst of dispatches that fills the notification channel: one reducer
\* that takes every action, registered before the first dispatch, and more
\* dispatches than the channel holds.
NextBurst ==
    \/ actions = <<>> /\ DoAddReducer(NameWorlds, QueryWorld)
    \/ DispatchWithin(MaxBurst, 0, TxtHelloWorld, KwDecision)

SpecBurst == Init /\ [][NextBurst]_vars

TxtMarked == <<"E2","80","A2"," ","a","\n","E2","80","A2"," ","c","t","x",":",":","b","\n","E2","80","A2"," ","c","\n">>
TxtEmptyBullet == <<"E2","80","A2"," ","\n","E2","80","A2"," ","c","t","x",":",":","b","\n">>

\* Captures of buffers in which a node without text comes before an
\* annotated one, loaded so or left so by Delete.
NextMark ==
    \/ Focus
    \/ Delete
    \/ \E content \in {TxtMarked, TxtEmptyBullet} : SetContent(content)
    \/ TriggerConsciousnessCapture

SpecMark == Init /\ [][NextMark]_vars

TxtCtx == <<"E2","80","A2"," ","c","t","x",":",":","b","\n">>

\* Edits of a node that a capture pass has marked.
NextRecapture ==
    \/ Focus
    \/ Delete
    \/ SetContent(TxtCtx)
    \/ TriggerConsciousnessCapture

SpecRecapture == Init /\ [][NextRecapture]_vars

(***************************************************************************)
(* Imprint routing: dispatches of three pattern types (highlight is        *)
(* accepted by two imprints, bridge by three, mode by none) with a content *)
(* that names no imprint, one that carries the marker imprint::X, and one  *)
(* that carries the documented spelling [imprint:: X].                     *)
(***************************************************************************)
MaxRouted == 2

TxtImprintMarker == <<"x"," ","i","m","p","r","i","n","t",":",":","f","e","r","a","l","_","d","u","a","l","i","t","y">>
TxtImprintDocumented == <<"x"," ","[","i","m","p","r","i","n","t",":",":"," ","f","e","r","a","l","_","d","u","a","l","i","t","y","]">>

\* The name a content gives in the documented spelling  [imprint:: X]
DocumentedImprint(content) ==
    FindMarked(content, KwImprint \o ColonColon \o <<" ">>, WordClass)

NextRoute ==
    \E content \in {TxtHelloWorld, TxtImprintMarker, TxtImprintDocumented},
       patternType \in {KwHighlight, KwBridge, KwMode} :
        DispatchWithin(MaxRouted, 0, content, patternType)

SpecRoute == Init /\ [][NextRoute]_vars

(***************************************************************************)
(* Links: a buffer of two lines, the first one keystroke away from holding *)
(* the link [[a]] and the second mentioning a, edited with the keys.  The  *)
(* content is loaded while the registry is empty, so that the node IDs the *)
(* registry holds stay bounded.                                            *)
(***************************************************************************)
MaxLinkChars == 7

TxtLinkPair == <<"E2","80","A2"," ","[","b","[","a","]","]","\n","E2","80","A2"," ","a","\n">>

NextLinks ==
    \/ Focus
    \/ Right
    \/ Down
    \/ Backspace
    \/ Delete
    \/ InsertCharWithin(MaxLinkChars, "b")
    \/ DOMAIN linkRegistry = {} /\ SetContent(TxtLinkPair)

SpecLinks == Init /\ [][NextLinks]_vars

(***************************************************************************)
(* Round trip: SetContent on well-formed contents, every line made of      *)
(* level pairs of spaces, the bullet and a space, a text and a newline.    *)
(* The texts are empty, plain, or begin with a space or a bullet marker.   *)
(***************************************************************************)
MaxRoundLines == 2
MaxRoundLevel == 1

RoundContents ==
    LET texts == {<<>>, <<"a">>, <<" ","a">>,
                  Bullet \o <<"a">>, HollowBullet \o <<"a">>}
        wellFormed == {Repeat(<<" "," ">>, level) \o Bullet \o text \o <<"\n">> :
                          level \in 0..MaxRoundLevel, text \in texts}
    IN  {Concat(ss) : ss \in UNION {[1..n -> wellFormed] :
                                        n \in 1..MaxRoundLines}}

NextRound ==
    \/ Focus
    \/ \E content \in RoundContents : SetContent(content)

SpecRound == Init /\ [][NextRound]_vars

(***************************************************************************)
(* Reducer queries: one reducer name registered again and again, directly  *)
(* and by reducer:: annotations of a loaded buffer, with queries in which  *)
(* the phrases "that mention " and "about " occur once or twice, and       *)
(* dispatches of one-letter contents.                                      *)
(***************************************************************************)
NextMatch ==
    \/ \E query \in {<<"t","h","a","t"," ","m","e","n","t","i","o","n"," ","a"," ","b">>,
                     <<"t","h","a","t"," ","m","e","n","t","i","o","n"," ","a"," ","t","h","a","t"," ","m","e","n","t","i","o","n"," ","b">>,
                     <<"a","b","o","u","t"," ","a"," ","a","b","o","u","t"," ","b">>} :
           DoAddReducer(<<"g">>, query)
    \/ \E content \in {<<"E2","80","A2"," ","r","e","d","u","c","e","r",":",":"," ","g"," ","t","h","a","t"," ","m","e","n","t","i","o","n"," ","a">>,
                       <<"E2","80","A2"," ","r","e","d","u","c","e","r",":",":"," ","g"," ","a","b","o","u","t"," ","c">>} :
           SetContent(content)
    \/ \E content \in {<<"a">>, <<"B">>, <<"c">>} :
           DoDispatch(0, content, KwDecision)

SpecMatch == Init /\ [][NextMatch]_vars

(***************************************************************************)
(* The notifications of a reducer: a buffer whose first line defines a     *)
(* reducer that collects its own definition, followed by two plain lines,  *)
(* and a buffer without a reducer; the host runs the listener or not.      *)
(***************************************************************************)
TxtReducerOutline == <<"E2","80","A2"," ","r","e","d","u","c","e","r",":",":"," ","g"," ","t","h","a","t"," ","m","e","n","t","i","o","n"," ","g","\n","E2","80","A2"," ","x","\n","E2","80","A2"," ","y","y","\n">>

NextListen ==
    \/ Focus
    \/ FocusListening
    \/ Blur
    \/ Down
    \/ End
    \/ \E content \in {TxtReducerOutline, TxtOutline} : SetContent(content)
    \/ ReceiveReducerUpdate

SpecListen == Init /\ [][NextListen]_vars

\* Manual captures of a buffer under edit: the cursor is moved, nodes are
\* added and typed into between the passes, and one buffer defines a reducer
\* that collects on every pass.
NextFrame ==
    \/ Focus
    \/ Down
    \/ End
    \/ Enter(MaxLines)
    \/ InsertCharWithin(MaxLinkChars, "b")
    \/ \E content \in {TxtCtx, TxtReducerOutline} : SetContent(content)
    \/ TriggerConsciousnessCapture

SpecFrame == Init /\ [][NextFrame]_vars

\* Merges and reloads of the buffer "a" above "[[a]]", which has a backlink:
\* the linking node is the lower one, the one a Backspace at column 0 removes.  The registry keeps
\* the IDs of the nodes replaced by a load, so the loads are bounded by the
\* number of IDs held.
NextMerge ==
    \/ Focus
    \/ Down
    \/ End
    \/ Backspace
    \/ Cardinality(HeldIDs) < MaxHeldIDs /\ SetContent(<<"E2","80","A2"," ","a","\n","E2","80","A2"," ","[","[","a","]","]","\n">>)

SpecMerge == Init /\ [][NextMerge]_vars

(***************************************************************************)
(* Properties.                                                             *)
(***************************************************************************)
Last(s) == s[Len(s)]

C2_BufferNeverEmpty == Len(lines) >= 1

\* SetContent has loaded an input without any non-blank line.
C2_Witness ==
    /\ op = "set_content"
    /\ Len(lines) = 1
    /\ lines[1].text = <<>>
    /\ lines[1].level = 0

\* C3: after Tab or Shift+Tab every node's level is between 0 and 6,
\* whatever the levels were before (a node loaded by SetContent from deeply
\* indented text, for example).
C3_LevelsBounded ==
    op \in {"tab", "shift+tab"} =>
        \A i \in 1..Len(lines) : lines[i].level \in 0..MaxIndent

\* C4: Backspace at column 0 of line i > 0 appends the text of line i to
\* line i - 1, removes node i, leaves every other node as it was, and puts
\* the cursor on line i - 1 at the former length of its text.
C4_BackspaceMerges ==
    [][(/\ op' \in {"backspace_char", "backspace_merge", "backspace_none"}
        /\ cursorPos = 0
        /\ cursor > 0)
       => /\ Len(lines') = Len(lines) - 1
          /\ lines'[cursor] =
                [lines[cursor] EXCEPT !.text = @ \o lines[cursor + 1].text]
          /\ \A j \in 1..(cursor - 1) : lines'[j] = lines[j]
          /\ \A j \in (cursor + 2)..Len(lines) : lines'[j - 1] = lines[j]
          /\ cursor' = cursor - 1
          /\ cursorPos' = Len(lines[cursor].text)]_vars

\* Backspace has merged "b" into "a", over a third line.
C4_Witness ==
    /\ op = "backspace_merge"
    /\ Len(lines) = 2
    /\ cursor = 0
    /\ cursorPos = 1
    /\ lines[1].text = <<"a", "b">>

\* C5: Enter inserts exactly one node with empty text right after the
\* cursor's line, at that line's level, moves the cursor to column 0 of the
\* new node and leaves every other node as it was.
C5_EnterInserts ==
    [][op' = "enter"
       => /\ Len(lines') = Len(lines) + 1
          /\ \A j \in 1..(cursor + 1) : lines'[j] = lines[j]
          /\ \A j \in (cursor + 2)..Len(lines) : lines'[j + 1] = lines[j]
          /\ lines'[cursor + 2].text = <<>>
          /\ lines'[cursor + 2].level = lines[cursor + 1].level
          /\ cursor' = cursor + 1
          /\ cursorPos' = 0]_vars

\* Enter on the indented second line of three has put the new node third.
C5_Witness ==
    /\ op = "enter"
    /\ Len(lines) = 3
    /\ cursor = 2
    /\ cursorPos = 0
    /\ lines[2].text # <<>>
    /\ lines[2].level = 1
    /\ lines[3].level = 1
    /\ lines[3].text = <<>>

\* C6: the action log only grows at its end: no step of Dispatch,
\* AddReducer, AddSelector, a capture pass or SetContent removes, reorders
\* or changes an action already logged.
C6_LogAppendOnly ==
    [][/\ Len(actions) <= Len(actions')
       /\ SubSeq(actions', 1, Len(actions)) = actions]_vars

\* A log of captured and dispatched actions has gone through AddSelector.
C6_Witness ==
    /\ op = "add_selector"
    /\ Len(actions) = MaxActions
    /\ \E i, j \in 1..Len(actions) : actions[i].nodeID # actions[j].nodeID

\* r lists exactly the actions of the log that the matcher of query accepts,
\* in the order of the log
IsMatchingSubsequence(r, log, query) ==
    LET idx == {i \in 1..Len(log) : matcher(query, log[i])}
    IN  /\ Len(r) = Cardinality(idx)
        /\ \A k \in 1..Len(r) :
              \E i \in idx : /\ Cardinality({j \in idx : j <= i}) = k
                             /\ r[k] = log[i]

\* C7: right after AddReducer the reducer's action list holds exactly the
\* logged actions its matcher accepts, in log order.
C7_AddReducerBackfills ==
    [][\A def \in ReducerDefs :
          (op' = "add_reducer" /\ DoAddReducer(def[1], def[2]))
          => IsMatchingSubsequence(reducers'[def[1]].actions, actions, def[2])]_vars

\* A reducer added after four dispatches, none of them notified, holds two.
C7_Witness ==
    /\ op = "add_reducer"
    /\ reducerUpdates = <<>>
    /\ Len(actions) = 4
    /\ \E n \in DOMAIN reducers : Len(reducers[n].actions) = 2

C9_DispatchRecomputesSelectors ==
    op = "dispatch" =>
        \A s \in DOMAIN selectors :
            \A R \in Range(selectors[s].inputs) \cap DOMAIN reducers :
                matcher(reducers[R].query, Last(actions))
                => /\ \E order \in Perms(Range(selectors[s].inputs)
                                         \cap DOMAIN reducers) :
                         selectors[s].output
                            = transform(selectors[s].outputFormat, order,
                                        reducers)
                   /\ Contains(selectors[s].output, Last(actions).content)

\* A selector over greetings shows the second action greetings took.
C9_Witness ==
    /\ op = "dispatch"
    /\ 1 \in DOMAIN selectors
    /\ NameGreetings \in Range(selectors[1].inputs) \cap DOMAIN reducers
    /\ Len(reducers[NameGreetings].actions) >= 2
    /\ Last(reducers[NameGreetings].actions) = Last(actions)
    /\ Contains(selectors[1].output, Last(actions).content)

\* C10: after one capture pass over the buffer of the greetings scenario the
\* reducer greetings holds exactly one action, with content "hello world".
C10_GreetingsHoldsOne ==
    (/\ op = "set_content"
     /\ [i \in 1..Len(lines) |-> lines[i].text] = Split(TxtGreetings, <<"\n">>)
     /\ Len(actions) = 3)
    => /\ NameGreetings \in DOMAIN reducers
       /\ Len(reducers[NameGreetings].actions) = 1
       /\ reducers[NameGreetings].actions[1].content = TxtHelloWorld

\* C11: with the notification channel at its capacity, Dispatch still
\* completes: the action is appended to the log and to the list of every
\* reducer whose matcher accepts it, and the channel is left as it was (the
\* notification is dropped, neither queued nor retried).
C11_FullChannelDropsOnlyNotification ==
    [][(op' = "dispatch" /\ Len(reducerUpdates) = ChannelCap)
       => /\ Len(actions') = Len(actions) + 1
          /\ SubSeq(actions', 1, Len(actions)) = actions
          /\ \A n \in DOMAIN reducers :
                matcher(reducers[n].query, Last(actions'))
                => reducers'[n].actions
                      = Append(reducers[n].actions, Last(actions'))
          /\ reducerUpdates' = reducerUpdates]_vars

\* A dispatch on a full channel: the reducer has taken it, the log holds it,
\* and no message of the channel carries it.
C11_Witness ==
    /\ op = "dispatch"
    /\ Len(reducerUpdates) = ChannelCap
    /\ NameWorlds \in DOMAIN reducers
    /\ Len(reducers[NameWorlds].actions) = ChannelCap + 1
    /\ Last(reducers[NameWorlds].actions) = Last(actions)
    /\ \A k \in 1..Len(reducerUpdates) :
          reducerUpdates[k].action # Last(actions)

\* C12: a capture pass in which the forwarding of an annotation fails is not
\* cut short: every annotation of the buffer is dispatched, in order, the
\* failure only adds a warning, and the pass ends by marking the annotated
\* nodes captured.
C12_CaptureSurvivesFailure ==
    [][op' \in {"capture", "set_content"}
       => LET parsed == Parse(GetContent(lines'))
              annotated(i) ==
                  \E k \in 1..Len(parsed) : parsed[k].line = i
          IN  /\ Len(actions') = Len(actions) + Len(parsed)
              /\ \A k \in 1..Len(parsed) :
                    /\ actions'[Len(actions) + k].content = parsed[k].content
                    /\ actions'[Len(actions) + k].patternType = parsed[k].type
              /\ (\A i \in 1..Len(lines') : lines'[i].text # <<>>)
                 => \A i \in 1..Len(lines') :
                       annotated(i) => lines'[i].captured]_vars

\* The forwarding of the first of three annotations failed; all three are
\* logged and their nodes captured.
C12_Witness ==
    /\ op = "set_content"
    /\ evnaWarnings = <<KwReducer>>
    /\ Len(actions) = 3
    /\ actions[3].content = TxtGoodbyeWorld
    /\ Len(lines) = 3
    /\ \A i \in 1..3 : lines[i].captured

\* the serialized line of the node carries at least one annotation
NodeAnnotated(node) == Parse(GetContent(<<node>>)) # <<>>

\* C13: after a capture pass every node whose line produced an annotation is
\* captured, and every other node has the captured value it had before the
\* pass (FALSE for the nodes SetContent has just made), whatever nodes
\* without text the buffer holds.
C13_CaptureMarksAnnotatedNodes ==
    [][op' \in {"capture", "set_content"}
       => \A i \in 1..Len(lines') :
             IF NodeAnnotated(lines'[i]) THEN lines'[i].captured
             ELSE lines'[i].captured
                     = (op' = "capture" /\ lines[i].captured)]_vars

\* C14: a node whose text an edit has changed (character insertion,
\* Backspace inside a line, Delete, or the text of a merged line) is not
\* captured after the edit.
C14_EditResetsCaptured ==
    [][op' \in {"insert", "backspace_char", "backspace_merge", "delete"}
       => \A i \in 1..Len(lines'), j \in 1..Len(lines) :
             (lines'[i].id = lines[j].id /\ lines'[i].text # lines[j].text)
             => ~lines'[i].captured]_vars

\* The imprints whose filter list contains the pattern type.
Accepting(patternType) ==
    {ImprintFilters[k].name : k \in {j \in 1..Len(ImprintFilters) :
                                  patternType \in ImprintFilters[j].filters}}

\* C15: an action dispatched with a content that names no imprint gets an
\* imprint whose filter list contains its pattern type (for highlight:
\* techcraft or queer_hauntology), and dispatch_bay when no predefined
\* imprint's filter list contains the pattern type.
C15_AutoRouteRespectsFilters ==
    \A k \in 1..Len(actions) :
        LET a == actions[k]
        IN  extractImprint(a.content) = <<>> =>
                /\ Accepting(a.patternType) # {}
                       => a.imprint \in Accepting(a.patternType)
                /\ Accepting(a.patternType) = {}
                       => a.imprint = ImDispatchBay
                /\ a.patternType = KwHighlight
                       => a.imprint \in {ImTechcraft, ImQueerHauntology}

C15_Witness ==
    /\ op = "dispatch"
    /\ Len(actions) = 2
    /\ actions[1].content = TxtHelloWorld
    /\ actions[1].patternType = KwHighlight
    /\ actions[1].imprint = ImQueerHauntology
    /\ actions[2].content = TxtHelloWorld
    /\ actions[2].patternType = KwMode
    /\ actions[2].imprint = ImDispatchBay

\* C16: auto-routing is deterministic: any two logged actions of the same
\* pattern type whose contents name no imprint carry the same imprint.
C16_AutoRouteDeterministic ==
    \A i, j \in 1..Len(actions) :
        /\ extractImprint(actions[i].content) = <<>>
        /\ extractImprint(actions[j].content) = <<>>
        /\ actions[i].patternType = actions[j].patternType
        => actions[i].imprint = actions[j].imprint

\* C17: an action whose content names an imprint X, by the marker
\* imprint::X or in the documented spelling [imprint:: X], has imprint X.
C17_ExplicitImprintWins ==
    \A k \in 1..Len(actions) :
        LET a == actions[k]
        IN  /\ extractImprint(a.content) # <<>>
                   => a.imprint = extractImprint(a.content)
            /\ DocumentedImprint(a.content) # <<>>
                   => a.imprint = DocumentedImprint(a.content)

\* C18: after an operation that updates the link registry (a character
\* insertion or SetContent), for all nodes A and B and every concept c that A
\* links to with [[c]]: if B's text contains c, compared in lower case, then
\* B's backlinks contain A's ID.
C18_BacklinksConsistent ==
    op \in {"insert", "set_content"} =>
        \A A, B \in 1..Len(lines) :
            \A c \in Range(extractLinks(lines[A].text)) :
                Contains(ToLower(lines[B].text), ToLower(c))
                    => lines[A].id \in DOMAIN lines[B].backlinks

\* C19: after a keystroke that edits the current line (character insertion,
\* Backspace in the line or merging, Delete), the links of the node at the
\* cursor are the concepts of the [[...]] links in its text.
C19_LinksFresh ==
    op \in {"insert", "backspace_char", "backspace_merge", "delete"} =>
        Range(lines[cursor + 1].links)
            = Range(extractLinks(lines[cursor + 1].text))

\* C20: for every well-formed content s, GetContent after SetContent(s)
\* returns exactly s.
C20_RoundTrip ==
    [][\A s \in RoundContents : SetContent(s) => GetContent(lines') = s]_vars

\* The text of a line after its indentation, with one leading bullet marker
\* removed.
StripMarker(rest) ==
    IF HasPrefix(rest, Bullet) THEN Drop(rest, Len(Bullet))
    ELSE IF HasPrefix(rest, HollowBullet) THEN Drop(rest, Len(HollowBullet))
    ELSE rest

NonBlank(line) == TrimSpace(line) # <<>>

\* C21: SetContent(s) leaves one node per non-blank line of s, in the order
\* of the input, with level the number of leading two-space groups and text
\* the rest of the line without a leading bullet marker, all with distinct
\* IDs, and the cursor at (0,0).
C21_SetContentBuildsNodes ==
    [][\A s \in RoundContents :
          SetContent(s) =>
              LET src == SelectSeq(Split(s, <<"\n">>), NonBlank)
              IN  /\ Len(lines') = Len(src)
                  /\ \A i \in 1..Len(src) :
                        /\ lines'[i].level = indentLevel(src[i])
                        /\ lines'[i].text =
                               StripMarker(Drop(src[i],
                                                2 * indentLevel(src[i])))
                  /\ \A i, j \in 1..Len(src) :
                        lines'[i].id = lines'[j].id => i = j
                  /\ cursor' = 0
                  /\ cursorPos' = 0]_vars

\* C22: every action in the log, in a reducer's list and in a pending
\* notification is in state dispatch; none is in state capture, compost,
\* bloom or loopback.
C22_EveryActionDispatched ==
    /\ \A k \in 1..Len(actions) : actions[k].state = StateDispatch
    /\ \A name \in DOMAIN reducers :
           \A k \in 1..Len(reducers[name].actions) :
               reducers[name].actions[k].state = StateDispatch
    /\ \A k \in 1..Len(reducerUpdates) :
           reducerUpdates[k].action.state = StateDispatch

C22_Witness ==
    /\ op = "dispatch"
    /\ Len(actions) >= 2
    /\ \E name \in DOMAIN reducers : Len(reducers[name].actions) >= 1

\* The whitespace-separated tokens of s after the first occurrence of phrase.
TokensAfterFirst(s, phrase) ==
    Fields(Drop(s, Index(s, phrase) + Len(phrase) - 1))

\* The whitespace-separated tokens of s after the last occurrence of phrase.
TokensAfterLast(s, phrase) ==
    LET parts == Split(s, phrase) IN Fields(parts[Len(parts)])

MentionsAny(action, keywords) ==
    \E k \in 1..Len(keywords) : Contains(ToLower(action.content), keywords[k])

\* C23: a reducer whose query contains "that mention " and none of "about ",
\* "bridges", "rangle" holds a logged action if and only if the action's
\* lowercased content contains one of the keywords that follow the phrase.
C23_ThatMentionMatches ==
    \A name \in DOMAIN reducers :
        LET queryLower == ToLower(reducers[name].query)
        IN  /\ Contains(queryLower, KwThatMention)
            /\ ~Contains(queryLower, KwAbout)
            /\ ~Contains(queryLower, KwBridges)
            /\ ~Contains(queryLower, KwRangle)
            => \A k \in 1..Len(actions) :
                   actions[k] \in Range(reducers[name].actions)
                   <=> MentionsAny(actions[k],
                                   TokensAfterFirst(queryLower, KwThatMention))

\* C24: a reducer whose query contains "about " holds every logged action
\* whose lowercased content contains one of the tokens that follow the last
\* occurrence of "about ".
C24_AboutUsesLastOccurrence ==
    \A name \in DOMAIN reducers :
        LET queryLower == ToLower(reducers[name].query)
        IN  Contains(queryLower, KwAbout)
            => \A k \in 1..Len(actions) :
                   MentionsAny(actions[k],
                               TokensAfterLast(queryLower, KwAbout))
                   => actions[k] \in Range(reducers[name].actions)

\* C25: a capture pass never replaces a registered reducer: every reducer
\* registered before the pass is registered after it with the same query,
\* and the actions it had collected are still the first of its list.
C25_ReducerCreatedOnce ==
    [][op' \in {"set_content", "capture"} =>
          \A name \in DOMAIN reducers :
              /\ name \in DOMAIN reducers'
              /\ reducers'[name].query = reducers[name].query
              /\ Len(reducers'[name].actions) >= Len(reducers[name].actions)
              /\ SubSeq(reducers'[name].actions, 1,
                        Len(reducers[name].actions))
                     = reducers[name].actions]_vars

\* The heading a selector's output gives the reducer name, up to its count.
SectionHeading(name) == <<"#","#"," ","F","r","o","m"," ">> \o name \o <<" ","(">>

\* C26: after a selector is recomputed (on AddSelector and on every
\* Dispatch) its output is the title followed by one section for each input
\* name that is a registered reducer, giving that reducer's number of
\* actions, and no section for an input name that is not registered.
C26_MissingInputOmitted ==
    op \in {"dispatch", "add_selector"} =>
        \A s \in DOMAIN selectors :
            LET sel == selectors[s]
            IN  /\ HasPrefix(sel.output,
                             <<"#"," ">> \o sel.outputFormat \o <<"\n","\n">>)
                /\ \A n \in Range(sel.inputs) :
                      IF n \in DOMAIN reducers
                      THEN Contains(sel.output,
                                    SectionHeading(n)
                                    \o Itoa(Len(reducers[n].actions))
                                    \o <<" ","i","t","e","m","s",")","\n">>)
                      ELSE ~Contains(sel.output, SectionHeading(n))

C26_Witness ==
    /\ op = "dispatch"
    /\ \E s \in DOMAIN selectors :
          /\ selectors[s].inputs = <<NameGreetings, NameWorlds>>
          /\ NameGreetings \in DOMAIN reducers
          /\ Len(reducers[NameGreetings].actions) >= 1
          /\ NameWorlds \notin DOMAIN reducers

\* C27: every action a capture pass (on SetContent or on the trigger) adds to
\* the log carries the ID of a node of the buffer whose serialized line
\* yields the action's annotation.
C27_ActionCarriesNodeID ==
    [][op' \in {"set_content", "capture"} =>
          \A k \in (Len(actions) + 1)..Len(actions') :
              \E i \in 1..Len(lines') :
                  /\ lines'[i].id = actions'[k].nodeID
                  /\ \E p \in Range(Parse(GetContent(<<lines'[i]>>))) :
                        /\ p.type = actions'[k].patternType
                        /\ p.content = actions'[k].content]_vars

C27_Witness ==
    /\ op \in {"set_content", "capture"}
    /\ Len(lines) = 2
    /\ lines[1].text = <<>>
    /\ NodeAnnotated(lines[2])
    /\ actions # <<>>
    /\ Last(actions).nodeID = lines[2].id

\* C28: the Delete key leaves the cursor, the number of lines and every
\* other line as they were; at the end of the line it changes nothing, and
\* before the end it removes exactly the character at the cursor column.
C28_DeleteNeverMerges ==
    [][op' = "delete" =>
          /\ cursor' = cursor
          /\ cursorPos' = cursorPos
          /\ Len(lines') = Len(lines)
          /\ IF cursorPos >= Len(lines[cursor + 1].text) THEN lines' = lines
             ELSE LET text == lines[cursor + 1].text
                  IN  lines' = [lines EXCEPT ![cursor + 1].text =
                                   SubSeq(text, 1, cursorPos)
                                   \o SubSeq(text, cursorPos + 2, Len(text))]
      ]_vars

C28_Witness ==
    /\ op = "delete"
    /\ Len(lines) = 2
    /\ cursor = 0
    /\ lines[1].text = <<"a">>
    /\ cursorPos = 1
    /\ lines[2].text = <<"b">>

\* C29: Tab and Shift+Tab change nothing but the level of the node at the
\* cursor line, and Shift+Tab lowers that level by one unless it is 0.
C29_IndentTouchesOnlyLevel ==
    [][op' \in {"tab", "shift+tab"} =>
          /\ cursor' = cursor
          /\ cursorPos' = cursorPos
          /\ Len(lines') = Len(lines)
          /\ \A i \in 1..Len(lines) :
                IF i = cursor + 1
                THEN /\ lines'[i] = [lines[i] EXCEPT !.level = lines'[i].level]
                     /\ op' = "shift+tab" =>
                            lines'[i].level = IF lines[i].level > 0
                                              THEN lines[i].level - 1 ELSE 0
                ELSE lines'[i] = lines[i]]_vars

C29_Witness ==
    /\ op = "shift+tab"
    /\ Len(lines) = 2
    /\ cursor = 0
    /\ lines[1].level = 0
    /\ lines[2].level = 1

\* C30: Left, Right, Home and End keep the cursor line, and at column 0 Left,
\* at the end of the line Right, keep the column as well; Up and Down move
\* the cursor line by at most one and keep it inside the buffer; no
\* navigation key changes a node.
C30_NavigationStaysInLine ==
    [][/\ op' \in {"left", "right", "home", "end", "up", "down"} =>
              lines' = lines
       /\ op' \in {"left", "right", "home", "end"} => cursor' = cursor
       /\ op' = "left" /\ cursorPos = 0 => cursorPos' = 0
       /\ op' = "right" /\ cursorPos = Len(lines[cursor + 1].text)
              => cursorPos' = cursorPos
       /\ op' \in {"up", "down"} =>
              /\ cursor' \in {cursor - 1, cursor, cursor + 1}
              /\ cursor' \in 0..(Len(lines) - 1)]_vars

C30_Witness ==
    /\ op = "left"
    /\ Len(lines) = 2
    /\ cursor = 1
    /\ cursorPos = 0
    /\ lines[2].text = <<>>

\* C31: every node's patternType is the first recognized annotation keyword
\* its current text contains, or empty when the text contains none.
C31_PatternTypeFollowsText ==
    \A i \in 1..Len(lines) :
        lines[i].patternType = detectPatternType(lines[i].text)

\* C33: after a reducer-updated notification is handled the cursor line is
\* a line of the buffer and the cursor column is within that line's text.
C33_CursorValidAfterUpdate ==
    op = "reducer_update" =>
        /\ cursor \in 0..(Len(lines) - 1)
        /\ cursorPos \in 0..Len(lines[cursor + 1].text)

\* C37: a notification a started listener takes from the channel is
\* handled by handleReducerUpdateMessage and the listener is armed again,
\* whether or not the outliner is focused at that moment.
C37_DeliveredIsHandled ==
    [][Len(reducerUpdates') < Len(reducerUpdates) =>
          /\ op' = "reducer_update"
          /\ listeners' >= listeners]_vars

C34_ReducersMirrorLog ==
    \A n \in DOMAIN reducers :
        IsMatchingSubsequence(reducers[n].actions, actions, reducers[n].query)

\* Three dispatches after the reducer was registered, the middle one
\* rejected by its matcher: the reducer holds the first and the third.
C34_Witness ==
    /\ op = "dispatch"
    /\ Len(actions) = 3
    /\ NameGreetings \in DOMAIN reducers
    /\ actions[2].content = TxtGoodbyeWorld
    /\ reducers[NameGreetings].actions = <<actions[1], actions[3]>>

\* C35: a capture pass does not edit the buffer: the nodes keep their number,
\* order, text, level and ID, the cursor stays where it is, and the only
\* change is that captured flags go from false to true.
C35_CaptureKeepsBuffer ==
    [][op' = "capture"
       => /\ Len(lines') = Len(lines)
          /\ \A i \in 1..Len(lines) :
                /\ lines'[i] = [lines[i] EXCEPT !.captured = lines'[i].captured]
                /\ lines[i].captured => lines'[i].captured
          /\ cursor' = cursor
          /\ cursorPos' = cursorPos]_vars

\* A pass run with the cursor on a second, empty node has marked the
\* annotated first node, typed into since its last capture.
C35_Witness ==
    /\ op = "capture"
    /\ Len(lines) = 2
    /\ cursor = 1
    /\ lines[2].text = <<>>
    /\ lines[1].captured
    /\ Len(lines[1].text) = 7

\* the actions log[from + 1], ..., log[from + Len(parsed)] are the
\* annotations of parsed, one each, in order
LoggedInOrder(log, from, parsed) ==
    /\ Len(log) >= from + Len(parsed)
    /\ \A k \in 1..Len(parsed) :
          /\ log[from + k].content = parsed[k].content
          /\ log[from + k].patternType = parsed[k].type

\* C36: each capture pass appends one action per annotation of the parser,
\* in annotation order, whatever the captured flags are; a manual pass right
\* after SetContent's own pass leaves every annotation in the log twice and
\* twice in every reducer whose matcher accepts it.
C36_EveryPassLogsAll ==
    [][op' = "capture"
       => LET parsed == Parse(GetContent(lines))
              n == Len(parsed)
          IN  /\ Len(actions') = Len(actions) + n
              /\ SubSeq(actions', 1, Len(actions)) = actions
              /\ LoggedInOrder(actions', Len(actions), parsed)
              /\ op = "set_content"
                 => /\ LoggedInOrder(actions, Len(actions) - n, parsed)
                    /\ \A r \in DOMAIN reducers' : \A k \in 1..n :
                          matcher(reducers'[r].query, actions'[Len(actions) + k])
                          => Cardinality({j \in 1..Len(reducers'[r].actions) :
                                 reducers'[r].actions[j].content
                                 = parsed[k].content}) >= 2]_vars

\* The reducer outline captured by SetContent and again by hand: its node
\* was captured before the second pass, the definition is logged twice and
\* the reducer holds both.
C36_Witness ==
    /\ op = "capture"
    /\ Len(actions) = 2
    /\ actions[1].content = actions[2].content
    /\ lines[1].patternType = KwReducer
    /\ \E r \in DOMAIN reducers : Len(reducers[r].actions) = 2

\* C38: after a selector is recomputed its output has one section per
\* registered input reducer, in the declared order of the inputs, each with
\* the reducer's item count and its actions in collection order; the output
\* is a function of the dispatch state.
C38_SectionsInDeclaredOrder ==
    [][op' \in {"add_selector", "dispatch"}
       => \A s \in DOMAIN selectors' :
             LET registered == DOMAIN reducers'
                 declared == SelectSeq(selectors'[s].inputs,
                                       LAMBDA n : n \in registered)
             IN  selectors'[s].output
                 = transform(selectors'[s].outputFormat, declared, reducers')]_vars

\* C40: in every state each node ID in a node's backlinks is the ID of a
\* node of the buffer.
C40_BacklinksPointIntoBuffer ==
    \A i \in 1..Len(lines) :
        DOMAIN lines[i].backlinks \subseteq {lines[j].id : j \in 1..Len(lines)}

====
